---- MODULE Spec2Model ----
(***************************************************************************)
(* Phishing URL classifier: the feature extractor (src/src/features.py),   *)
(* the predictor (src/src/predict.py) and the trainer                      *)
(* (src/src/train_model.py).                                               *)
(*                                                                         *)
(* A URL is a sequence of one-character strings.  urllib.parse.urlsplit    *)
(* and ipaddress.ip_address are modelled by what CPython 3.11.6 does on    *)
(* the characters of Alphabet (ASCII, no whitespace or control             *)
(* characters, so urlsplit's lstrip and its removal of tab, CR and LF are  *)
(* identities here, and _checknetloc returns at once).                     *)
(***************************************************************************)
EXTENDS Integers, Sequences, FiniteSets, TLC

VARIABLES
    url,          \* features: the argument of extract_features_from_url
    fx_pc,        \* features: "call" before the call, "returned" or "raised" after
    features,     \* features: the list returned (<<>> until it returns)
    again,        \* features: the list a second call with the same url returned
    files,        \* the file system: path -> what joblib.load finds there
    fn,           \* predict: the function called, "predict_url" or "predict_batch"
    urls,         \* predict: the urls argument (for predict_url the one url)
    model,        \* predict: the local variable model (None or an object)
    model_arg,    \* predict: the model argument as the caller passed it
    model_path,   \* predict: the model_path argument (None or a path)
    pc,           \* predict: "call", "loop" (predict_batch's for), "returned", "raised"
    results,      \* predict: predict_batch's local list results
    ret,          \* predict: the results returned (predict_url: its one dict)
    exc,          \* predict: the exception that ended the call, or NoException
    loads,        \* predict: how many times load_model was called
    ncalls,       \* predict: how many calls of predict_url have ended
    dataset,      \* train: data/urls.csv as pandas reads it
    tr_pc,        \* train: where train_model.main is
    y,            \* train: the normalized labels load_and_prepare_data returns
    tr_results,   \* train: the local results of train_and_evaluate_models
    best_model,   \* train: its local best_model
    best_score,   \* train: its local best_score, in units of 1/F1Max
    best_name,    \* train: its local best_name
    tr_exc,       \* train: the exception that ended main, or NoTrainException
    dumps,        \* train: how many times joblib.dump was called
    shared,       \* threads: the loaded model object the concurrent calls share
    given,        \* threads: that object as load_model returned it
    calls         \* threads: the concurrent calls, each with its locals

fx_vars == <<url, fx_pc, features, again>>

pr_vars == <<fn, urls, model, model_arg, model_path, pc, results, ret, exc, loads,
            ncalls>>

tr_vars == <<dataset, tr_pc, y, tr_results, best_model, best_score, best_name,
             tr_exc, dumps>>

cc_vars == <<shared, given, calls>>

vars == <<url, fx_pc, features, again, files, fn, urls, model, model_arg,
          model_path, pc, results, ret, exc, loads, ncalls, dataset, tr_pc, y,
          tr_results, best_model, best_score, best_name, tr_exc, dumps,
          shared, given, calls>>

----------------------------------------------------------------------------
(* Characters and strings                                                  *)

LowerLetters ==
    {"a","b","c","d","e","f","g","h","i","j","k","l","m",
     "n","o","p","q","r","s","t","u","v","w","x","y","z"}

UpperLetters ==
    {"A","B","C","D","E","F","G","H","I","J","K","L","M",
     "N","O","P","Q","R","S","T","U","V","W","X","Y","Z"}

Letters == LowerLetters \cup UpperLetters

Digits == {"0","1","2","3","4","5","6","7","8","9"}

\* urllib.parse.scheme_chars
SchemeChars == Letters \cup Digits \cup {"+", "-", "."}

HexDigits == Digits \cup {"a","b","c","d","e","f","A","B","C","D","E","F"}

\* str.lower() on one ASCII character
LowerChar(c) ==
    CASE c = "A" -> "a" [] c = "B" -> "b" [] c = "C" -> "c" [] c = "D" -> "d"
      [] c = "E" -> "e" [] c = "F" -> "f" [] c = "G" -> "g" [] c = "H" -> "h"
      [] c = "I" -> "i" [] c = "J" -> "j" [] c = "K" -> "k" [] c = "L" -> "l"
      [] c = "M" -> "m" [] c = "N" -> "n" [] c = "O" -> "o" [] c = "P" -> "p"
      [] c = "Q" -> "q" [] c = "R" -> "r" [] c = "S" -> "s" [] c = "T" -> "t"
      [] c = "U" -> "u" [] c = "V" -> "v" [] c = "W" -> "w" [] c = "X" -> "x"
      [] c = "Y" -> "y" [] c = "Z" -> "z" [] OTHER -> c

\* str.lower()
Lower(s) == [i \in 1..Len(s) |-> LowerChar(s[i])]

\* int(c) of one decimal digit
DigitVal(c) ==
    CASE c = "0" -> 0 [] c = "1" -> 1 [] c = "2" -> 2 [] c = "3" -> 3
      [] c = "4" -> 4 [] c = "5" -> 5 [] c = "6" -> 6 [] c = "7" -> 7
      [] c = "8" -> 8 [] c = "9" -> 9 [] OTHER -> 0

\* c in s
Contains(s, c) == \E i \in 1..Len(s) : s[i] = c

\* s.find(c, start), 1-based: the least index >= start holding c; 0 when none
Find(s, c, start) ==
    LET hits == {i \in start..Len(s) : s[i] = c}
    IN  IF hits = {} THEN 0 ELSE CHOOSE i \in hits : \A j \in hits : i <= j

\* s[from:], 1-based
Tail_(s, from) == SubSeq(s, from, Len(s))

\* s.startswith(p)
StartsWith(s, p) == Len(p) <= Len(s) /\ SubSeq(s, 1, Len(p)) = p

\* s.endswith(p)
EndsWith(s, p) ==
    Len(p) <= Len(s) /\ SubSeq(s, Len(s) - Len(p) + 1, Len(s)) = p

\* s.split(c): the parts between the occurrences of c (always at least one part)
RECURSIVE Split(_, _)
Split(s, c) ==
    LET i == Find(s, c, 1)
    IN  IF i = 0 THEN <<s>>
        ELSE <<SubSeq(s, 1, i - 1)>> \o Split(Tail_(s, i + 1), c)

\* int(s, 10) of a string of decimal digits
RECURSIVE DecVal(_)
DecVal(s) ==
    IF s = <<>> THEN 0
    ELSE 10 * DecVal(SubSeq(s, 1, Len(s) - 1)) + DigitVal(s[Len(s)])

----------------------------------------------------------------------------
(* ipaddress.ip_address, as urlsplit's _check_bracketed_host uses it       *)

\* IPv4Address._parse_octet: does it accept the octet?
ParseOctetOk(o) ==
    /\ o # <<>>
    /\ \A i \in 1..Len(o) : o[i] \in Digits
    /\ Len(o) <= 3
    /\ (o = <<"0">> \/ o[1] # "0")
    /\ DecVal(o) <= 255

\* IPv4Address(s) succeeds
IsIPv4(s) ==
    /\ s # <<>>
    /\ ~Contains(s, "/")
    /\ LET octets == Split(s, ".")
       IN  /\ Len(octets) = 4
           /\ \A i \in 1..4 : ParseOctetOk(octets[i])

\* IPv6Address._parse_hextet: does it accept the hextet?  (int('', 16) raises)
ParseHextetOk(h) ==
    /\ \A i \in 1..Len(h) : h[i] \in HexDigits
    /\ Len(h) <= 4
    /\ h # <<>>

\* IPv6Address._ip_int_from_string, after the IPv4 suffix is replaced: the
\* checks on the parts between the colons.  A '::' is an empty part that is
\* neither the first nor the last; parts_hi parts before it and parts_lo parts
\* after it are parsed as hextets
V6PartsOk(parts, skips) ==
    /\ Len(parts) <= 9
    /\ Cardinality(skips) <= 1
    /\ IF skips # {}
       THEN LET k  == CHOOSE i \in skips : TRUE
                hi == IF parts[1] = <<>> THEN k - 2 ELSE k - 1
                lo == IF parts[Len(parts)] = <<>>
                      THEN Len(parts) - k - 1 ELSE Len(parts) - k
            IN  /\ (parts[1] = <<>> => hi = 0)
                /\ (parts[Len(parts)] = <<>> => lo = 0)
                /\ 8 - (hi + lo) >= 1
                /\ \A i \in 1..hi : ParseHextetOk(parts[i])
                /\ \A i \in (Len(parts) - lo + 1)..Len(parts) :
                      ParseHextetOk(parts[i])
       ELSE /\ Len(parts) = 8
            /\ \A i \in 1..8 : ParseHextetOk(parts[i])

\* the indices of the empty parts that stand for '::'
V6Skips(parts) == {i \in 2..(Len(parts) - 1) : parts[i] = <<>>}

\* an IPv4-style last part is checked and replaced by its two hextets
V6ReplaceTail(parts) ==
    SubSeq(parts, 1, Len(parts) - 1) \o << <<"0">>, <<"0">> >>

\* IPv6Address._ip_int_from_string on the parts ip_str.split(':')
V6SplitOk(parts) ==
    /\ Len(parts) >= 3
    /\ IF Contains(parts[Len(parts)], ".")
       THEN /\ IsIPv4(parts[Len(parts)])
            /\ V6PartsOk(V6ReplaceTail(parts), V6Skips(V6ReplaceTail(parts)))
       ELSE V6PartsOk(parts, V6Skips(parts))

\* IPv6Address._ip_int_from_string succeeds on ip_str
IPv6PartsOk(ip_str) == ip_str # <<>> /\ V6SplitOk(Split(ip_str, ":"))

\* IPv6Address(s) succeeds: '/' is refused, a '%scope' suffix is split off
IsIPv6(s) ==
    /\ ~Contains(s, "/")
    /\ LET p == Find(s, "%", 1)
       IN  IF p = 0 THEN IPv6PartsOk(s)
           ELSE /\ p < Len(s)
                /\ ~Contains(Tail_(s, p + 1), "%")
                /\ IPv6PartsOk(SubSeq(s, 1, p - 1))

\* re.match(r"\Av[a-fA-F0-9]+\..+\Z", hostname)
IsIPvFuture(h) ==
    \E d \in 3..(Len(h) - 1) :
        /\ h[1] = "v"
        /\ h[d] = "."
        /\ \A i \in 2..(d - 1) : h[i] \in HexDigits

\* _check_bracketed_host(hostname) returns without raising ValueError
BracketedHostOk(h) ==
    IF StartsWith(h, <<"v">>) THEN IsIPvFuture(h)
    ELSE ~IsIPv4(h) /\ IsIPv6(h)

----------------------------------------------------------------------------
(* urllib.parse.urlparse, as features.py reads it: .scheme and .netloc     *)

\* urlparse() raised ValueError
ParseError == [raised |-> TRUE, scheme |-> <<>>, netloc |-> <<>>]

\* _splitnetloc(url, 2), 1-based: the index of the first of '/', '?', '#'
\* at or after position 3, Len(url) + 1 when there is none
NetlocEnd(u) ==
    LET ds == {i \in 3..Len(u) : u[i] \in {"/", "?", "#"}}
    IN  IF ds = {} THEN Len(u) + 1
        ELSE CHOOSE i \in ds : \A j \in ds : i <= j

\* the 1-based index of the ':' that ends the scheme, 0 when u has no scheme:
\* the first ':', not the first character, after a letter and scheme_chars
SchemeEnd(u) ==
    LET i == Find(u, ":", 1)
    IN  IF /\ i > 1
           /\ u[1] \in Letters
           /\ \A k \in 1..(i - 1) : u[k] \in SchemeChars
        THEN i ELSE 0

\* the netloc of what follows the scheme: what is between a leading '//' and
\* the next of '/', '?', '#'
NetlocOf(rest) ==
    IF StartsWith(rest, <<"/", "/">>)
    THEN SubSeq(rest, 3, NetlocEnd(rest) - 1)
    ELSE <<>>

\* netloc.partition('[')[2].partition(']')[0], given the index of the first '['
Bracketed(netloc, open) ==
    LET close == Find(netloc, "]", open + 1)
    IN  IF close = 0 THEN Tail_(netloc, open + 1)
        ELSE SubSeq(netloc, open + 1, close - 1)

\* urlsplit's checks of the netloc, and its result
SplitResult(scheme, netloc) ==
    IF Contains(netloc, "[") # Contains(netloc, "]") THEN ParseError
    ELSE IF /\ Contains(netloc, "[")
            /\ ~BracketedHostOk(Bracketed(netloc, Find(netloc, "[", 1)))
    THEN ParseError
    ELSE [raised |-> FALSE, scheme |-> scheme, netloc |-> netloc]

\* urlsplit, given where the scheme ends
SplitAt(u, i) ==
    IF i > 0
    THEN SplitResult(Lower(SubSeq(u, 1, i - 1)), NetlocOf(Tail_(u, i + 1)))
    ELSE SplitResult(<<>>, NetlocOf(u))

\* urlparse(u): the scheme and the netloc, or ValueError
Urlparse(u) == SplitAt(u, SchemeEnd(u))

----------------------------------------------------------------------------
(* src/src/features.py                                                     *)

HTTP_PREFIX == <<"h", "t", "t", "p", ":", "/", "/">>

\* a call that raised ValueError (no value)
Raised == [raised |-> TRUE, value |-> <<>>]

Returned(v) == [raised |-> FALSE, value |-> v]

\* a url_length that reads what an earlier call left behind
url_length_seen(u) == Len(u) + Len(features)

\* a url_length that measures the hostname only
url_length_host(u) ==
    IF Urlparse(u).raised THEN 0 ELSE Len(Urlparse(u).netloc)

url_length(u) == Len(u)

count_char(u, ch) == Cardinality({i \in 1..Len(u) : u[i] = ch})

\* hostname = parsed.netloc, for a parse that did not raise
NetlocResult(parsed) ==
    IF parsed.raised THEN Raised ELSE Returned(parsed.netloc)

\* a netloc without its userinfo and its port, as parsed.hostname cuts it
BareHost(netloc) ==
    LET at == {i \in 1..Len(netloc) : netloc[i] = "@"}
        host == IF at = {} THEN netloc
                ELSE Tail_(netloc, 1 + CHOOSE i \in at : \A j \in at : j <= i)
        colon == Find(host, ":", 1)
    IN  IF colon = 0 \/ Contains(host, "[") THEN host
        ELSE SubSeq(host, 1, colon - 1)

\* get_hostname returning the bare host of the netloc it found
HostnameBare(u, parsed) ==
    IF parsed.raised THEN Raised
    ELSE IF parsed.netloc # <<>> THEN Returned(BareHost(parsed.netloc))
    ELSE IF Urlparse(HTTP_PREFIX \o u).raised THEN Raised
    ELSE Returned(BareHost(Urlparse(HTTP_PREFIX \o u).netloc))

\* get_hostname, lines 23-30, given the first parse
HostnameFrom(u, parsed) ==
    IF parsed.raised THEN Raised
    ELSE IF parsed.netloc # <<>> THEN Returned(parsed.netloc)
    ELSE NetlocResult(Urlparse(HTTP_PREFIX \o u))

\* get_hostname(url): the netloc of the first parse, of the parse of
\* "http://" + url when that is empty; a ValueError of either parse propagates
get_hostname(u) == HostnameFrom(u, Urlparse(u))

\* Op applied to the value of a call, the ValueError of a call that raised
Then(r, Op(_)) == IF r.raised THEN Raised ELSE Returned(Op(r.value))

\* hostname.count('.')
CountDots(hostname) == count_char(hostname, ".")

num_dots_in_hostname(u) == Then(get_hostname(u), CountDots)

\* the pattern with each group checked against 0-255
MatchesIpInRange(hostname) ==
    LET groups == Split(hostname, ".")
    IN  IF /\ Len(groups) = 4
           /\ \A i \in 1..4 :
                 /\ Len(groups[i]) \in 1..3
                 /\ \A k \in 1..Len(groups[i]) : groups[i][k] \in Digits
                 /\ DecVal(groups[i]) <= 255
        THEN 1 ELSE 0

\* the pattern for two or more groups of digits, not four
MatchesDottedDigits(hostname) ==
    LET groups == Split(hostname, ".")
    IN  IF /\ Len(groups) >= 2
           /\ \A i \in 1..Len(groups) :
                 /\ Len(groups[i]) \in 1..3
                 /\ \A k \in 1..Len(groups[i]) : groups[i][k] \in Digits
        THEN 1 ELSE 0

\* 1 if re.match(r'^\d{1,3}\.\d{1,3}\.\d{1,3}\.\d{1,3}$', hostname) else 0
MatchesIpPattern(hostname) ==
    LET groups == Split(hostname, ".")
    IN  IF /\ Len(groups) = 4
           /\ \A i \in 1..4 :
                 /\ Len(groups[i]) \in 1..3
                 /\ \A k \in 1..Len(groups[i]) : groups[i][k] \in Digits
        THEN 1 ELSE 0

has_ip_address(u) == Then(get_hostname(u), MatchesIpPattern)

\* 1 if parsed.scheme is 'http' or 'https'
SchemeIsHttpAny(parsed) ==
    IF parsed.scheme \in {<<"h", "t", "t", "p">>, <<"h", "t", "t", "p", "s">>}
    THEN 1 ELSE 0

\* 1 if parsed.scheme == 'https' else 0
SchemeIsHttps(parsed) ==
    IF parsed.scheme = <<"h", "t", "t", "p", "s">> THEN 1 ELSE 0

uses_https(u) ==
    IF Urlparse(u).raised THEN Raised ELSE Returned(SchemeIsHttps(Urlparse(u)))

suspicious_tlds ==
    { <<".", "z", "i", "p">>, <<".", "t", "k">>, <<".", "x", "y", "z">>,
      <<".", "t", "o", "p">>, <<".", "g", "q">>, <<".", "m", "l">>,
      <<".", "g", "a">>, <<".", "c", "f">> }

\* the loop of has_suspicious_tld over hostname = get_hostname(url).lower()
EndsWithSuspiciousTld(hostname) ==
    IF \E tld \in suspicious_tlds : EndsWith(Lower(hostname), tld)
    THEN 1 ELSE 0

has_suspicious_tld(u) == Then(get_hostname(u), EndsWithSuspiciousTld)

shorteners ==
    { <<"b", "i", "t", ".", "l", "y">>, <<"g", "o", "o", ".", "g", "l">>,
      <<"t", "i", "n", "y", "u", "r", "l", ".", "c", "o", "m">>,
      <<"t", ".", "c", "o">>, <<"o", "w", ".", "l", "y">>,
      <<"b", "i", "t", "l", "y", ".", "c", "o", "m">> }

\* 1 if the lower-cased hostname starts with a shortener
InShortenersPrefix(hostname) ==
    IF \E sh \in shorteners : StartsWith(Lower(hostname), sh) THEN 1 ELSE 0

\* 1 if hostname in shorteners else 0, hostname = get_hostname(url).lower()
InShorteners(hostname) == IF Lower(hostname) \in shorteners THEN 1 ELSE 0

is_shortened(u) == Then(get_hostname(u), InShorteners)

\* the list extract_features_from_url builds, given the five features that
\* parse the URL: the ValueError of the first of them that raises
FeatureList(u, dots, ip, https, tld, short) ==
    IF dots.raised \/ ip.raised \/ https.raised \/ tld.raised \/ short.raised
    THEN Raised
    ELSE Returned(<< url_length(u),
                     count_char(u, "."),
                     count_char(u, "-"),
                     count_char(u, "_"),
                     count_char(u, "/"),
                     count_char(u, "?"),
                     count_char(u, "="),
                     count_char(u, "@"),
                     count_char(u, "&"),
                     dots.value,
                     ip.value,
                     https.value,
                     tld.value,
                     short.value >>)

\* extract_features_from_url(url)
extract_features_from_url(u) ==
    FeatureList(u, num_dots_in_hostname(u), has_ip_address(u), uses_https(u),
                has_suspicious_tld(u), is_shortened(u))

----------------------------------------------------------------------------
(* The URLs the model is checked on                                        *)

\* the longest string of ShortUrls
MaxLen == 4

\* the characters of ShortUrls: the ones urlparse gives a meaning to
ShortAlphabet == {"a", "1", ".", ":", "/", "[", "]"}

\* every string over ShortAlphabet of at most MaxLen characters
ShortUrls == UNION {[1..n -> ShortAlphabet] : n \in 0..MaxLen}

\* what a URL starts with, up to its authority
SchemeParts ==
    { <<>>,
      <<"h", "t", "t", "p", ":", "/", "/">>,
      <<"h", "t", "t", "p", "s", ":", "/", "/">>,
      <<"H", "T", "T", "P", ":", "/", "/">>,
      <<"H", "T", "T", "P", "S", ":", "/", "/">>,
      <<"/", "/">>,
      <<"h", "t", "t", "p", "s", ":">>,
      <<"f", "t", "p", ":", "/", "/">> }

\* the userinfo of an authority
UserParts ==
    { <<>>,
      <<"u", "s", "e", "r", "@">> }

\* the host of an authority
HostParts ==
    { <<>>,
      <<"w", "w", "w", ".", "g", "o", "o", "g", "l", "e", ".", "c", "o", "m">>,
      <<"e", "x", "a", "m", "p", "l", "e", ".", "c", "o", "m">>,
      <<"1", "9", "2", ".", "1", "6", "8", ".", "1", ".", "1">>,
      <<"1", ".", "2", ".", "3", ".", "4">>,
      <<"9", "9", "9", ".", "9", "9", "9", ".", "9", "9", "9", ".", "9", "9", "9">>,
      <<"1", ".", "2", ".", "3">>,
      <<"b", "i", "t", ".", "l", "y">>,
      <<"t", ".", "c", "o">>,
      <<"B", "i", "t", ".", "L", "y">>,
      <<"b", "i", "t", ".", "l", "y", ".", "e", "v", "i", "l", ".", "c", "o", "m">>,
      <<"s", "i", "t", "e", ".", "t", "k">>,
      <<"S", "I", "T", "E", ".", "T", "K">>,
      <<"s", "e", "c", "u", "r", "e", "-", "p", "a", "y", "p", "a", "l", "-", "v", "e", "r", "i", "f", "y", ".", "t", "k">>,
      <<"t", "k">>,
      <<"[", ":", ":", "1", "]">>,
      <<"[", "1", ".", "2", ".", "3", ".", "4", "]">>,
      <<"[", "v", "1", ".", "a", "]">>,
      <<"[", ":", ":", "1">> }

\* the port of an authority
PortParts ==
    { <<>>,
      <<":", "8", "0">> }

\* what follows the authority
PathParts ==
    { <<>>,
      <<"/">>,
      <<"/", "x">>,
      <<"/", "l", "o", "g", "i", "n", ".", "p", "h", "p">>,
      <<"/", "a", "c", "c", "o", "u", "n", "t", "?", "u", "s", "e", "r", "=", "t", "e", "s", "t", "&", "i", "d", "=", "1", "2", "3">>,
      <<"?", "q", "=", "1">>,
      <<"#", "t", "o", "p">>,
      <<"/", "f", "r", "e", "e", "-", "i", "p", "h", "o", "n", "e", "_", "w", "i", "n">> }

\* URLs put together from their parts
ComposedUrls ==
    {s \o u \o h \o p \o r :
        s \in SchemeParts, u \in UserParts, h \in HostParts,
        p \in PortParts, r \in PathParts}

\* the inputs of extract_features_from_url
URLS == ShortUrls \cup ComposedUrls

----------------------------------------------------------------------------
(* Models and the model artifact                                           *)

\* Python's None, as an object
None == [type |-> "NoneType"]

\* probabilities are counted in units of 1/PScale
PScale == 4

\* the classifier families train_model.py fits; each has predict_proba
Families == {"Logistic Regression", "Decision Tree", "Random Forest"}

\* what fitting can produce: a classifier is named by the decision rule it
\* learned, which gives its probability of phishing on a feature list
Rules == {"flags", "always"}

\* a classifier of another library, with predict and without predict_proba
ForeignFamily == "LinearSVC"

\* a fitted classifier
Model(family, rule) == [type |-> family, rule |-> rule]

\* the objects with a predict method
Models == {Model(f, r) : f \in Families \cup {ForeignFamily}, r \in Rules}

\* an object that is neither None nor a classifier
OtherObject == [type |-> "dict"]

\* hasattr(model, 'predict')
HasPredict(m) == m \in Models

\* hasattr(model, 'predict_proba')
HasPredictProba(m) == m \in Models /\ m.type \in Families

\* the probability of class 1 (phishing) the classifier gives the features f,
\* in units of 1/PScale
Score(m, f) ==
    IF m.rule = "always" THEN PScale
    ELSE LET raw == 1 + f[11] + f[13] + f[14] + (1 - f[12])
         IN  IF raw > PScale THEN PScale ELSE raw

\* model.predict(features_array)[0]: the class of the larger probability,
\* class 0 on a tie
Predict(m, f) == IF 2 * Score(m, f) > PScale THEN 1 ELSE 0

\* model.predict_proba(features_array)[0], 1-based: <<P(class 0), P(class 1)>>
PredictProba(m, f) == <<PScale - Score(m, f), Score(m, f)>>

\* os.path.join('models', 'phishing_model.joblib')
DefaultPath == "models/phishing_model.joblib"

\* a path a caller passes as model_path
CustomPath == "other.joblib"

Paths == {DefaultPath, CustomPath}

\* the model_path argument left at its default None
NoPath == "None"

\* no exception
NoException == "None"

\* no file at the path
Absent == [kind |-> "absent"]

\* a file joblib.load cannot deserialize
Garbage == [kind |-> "garbage"]

\* a file joblib.dump has opened for writing and not yet finished
Partial == [kind |-> "partial"]

\* the attributes of an object, as pickle writes them after the class name
PickleState(obj) == IF obj \in Models THEN <<obj.rule>> ELSE <<>>

\* a file joblib.dump(obj, path) wrote: the class name and the attributes
Pickle(obj) == [kind |-> "pickle", cls |-> obj.type, state |-> PickleState(obj)]

\* an object of the pickled class with none of the pickled attributes
\* restored: a classifier as constructed, its rule the default
UnpickleUnfitted(file) ==
    IF file.state = <<>> THEN [type |-> file.cls]
    ELSE [type |-> file.cls, rule |-> "always"]

\* what joblib.load makes of a complete file: an object of the class named,
\* with the attributes restored
Unpickle(file) ==
    IF file.state = <<>> THEN [type |-> file.cls]
    ELSE [type |-> file.cls, rule |-> file.state[1]]

\* the predictor's variables while no predict call is modelled
PrIdle ==
    /\ fn = "None"
    /\ urls = <<>>
    /\ model = None
    /\ model_arg = None
    /\ model_path = NoPath
    /\ pc = "idle"
    /\ results = <<>>
    /\ ret = <<>>
    /\ exc = NoException
    /\ loads = 0
    /\ ncalls = 0

\* no exception in train_model.main
NoTrainException == [type |-> "None", site |-> "None"]

\* the data set before pandas has read any
NoDataset == [has_columns |-> FALSE, dtype |-> "None", label |-> <<>>, url |-> <<>>]

\* the threads' variables while no concurrent calls are modelled
CcIdle ==
    /\ shared = None
    /\ given = None
    /\ calls = <<>>

\* the trainer's variables while no training run is modelled
TrIdle ==
    /\ dataset = NoDataset
    /\ tr_pc = "idle"
    /\ y = <<>>
    /\ tr_results = <<>>
    /\ best_model = None
    /\ best_score = 0
    /\ best_name = ""
    /\ tr_exc = NoTrainException
    /\ dumps = 0

----------------------------------------------------------------------------
(* One call of extract_features_from_url                                   *)

FxInit ==
    /\ url \in URLS
    /\ fx_pc = "call"
    /\ features = <<>>
    /\ again = <<>>
    /\ PrIdle
    /\ TrIdle
    /\ CcIdle
    /\ files = [p \in Paths |-> Absent]

\* extract_features_from_url(url) returns the feature list
FxReturn ==
    /\ fx_pc = "call"
    /\ ~extract_features_from_url(url).raised
    /\ features' = extract_features_from_url(url).value
    /\ fx_pc' = "returned"
    /\ UNCHANGED <<url, again, files, pr_vars, tr_vars, cc_vars>>

\* extract_features_from_url(url) raises ValueError
FxRaise ==
    /\ fx_pc = "call"
    /\ extract_features_from_url(url).raised
    /\ fx_pc' = "raised"
    /\ UNCHANGED <<url, features, again, files, pr_vars, tr_vars, cc_vars>>

\* extract_features_from_url(url) is called a second time and returns
FxAgain ==
    /\ fx_pc = "returned"
    /\ ~extract_features_from_url(url).raised
    /\ again' = extract_features_from_url(url).value
    /\ fx_pc' = "repeated"
    /\ UNCHANGED <<url, features, files, pr_vars, tr_vars, cc_vars>>

FxNext == FxReturn \/ FxRaise \/ FxAgain

SpecFeatures == FxInit /\ [][FxNext]_vars

----------------------------------------------------------------------------
(* src/src/predict.py                                                      *)

\* a call that raised e after n calls of load_model
Failed(e, n) == [exc |-> e, loads |-> n, result |-> <<>>]

\* load_model without the os.path.exists test, a missing file read as None
load_model_lenient(mp, fs) ==
    LET path == IF mp = NoPath THEN DefaultPath ELSE mp
    IN  IF fs[path] = Absent
        THEN [exc |-> NoException, value |-> None]
        ELSE IF fs[path] \in {Garbage, Partial}
        THEN [exc |-> "UnpicklingError", value |-> None]
        ELSE [exc |-> NoException, value |-> Unpickle(fs[path])]

\* load_model(model_path): the object at the path (the default path for None);
\* FileNotFoundError when nothing is there, and whatever joblib.load raises
\* (named UnpicklingError here) when the bytes do not deserialize, a file
\* still being written included
load_model(mp, fs) ==
    LET path == IF mp = NoPath THEN DefaultPath ELSE mp
    IN  IF fs[path] = Absent
        THEN [exc |-> "FileNotFoundError", value |-> None]
        ELSE IF fs[path] \in {Garbage, Partial}
        THEN [exc |-> "UnpicklingError", value |-> None]
        ELSE [exc |-> NoException, value |-> Unpickle(fs[path])]

\* prediction_text with the test on the other label
PredictionTextSwapped(prediction_label) ==
    IF prediction_label = 0 THEN "Phishing" ELSE "Legitimate"

\* prediction_text
PredictionText(prediction_label) ==
    IF prediction_label = 1 THEN "Phishing" ELSE "Legitimate"

\* the predict_proba branch with confidence = prob_phishing
WithProbaPhishing(m, f, prediction_label) ==
    <<PredictProba(m, f)[1], PredictProba(m, f)[2], PredictProba(m, f)[2]>>

\* the branch of predict_url for a model with predict_proba:
\* <<prob_legitimate, prob_phishing, confidence>>
WithProba(m, f, prediction_label) ==
    LET probabilities == PredictProba(m, f)
    IN  <<probabilities[1], probabilities[2], probabilities[prediction_label + 1]>>

\* the fallback branch with the two probabilities exchanged
WithoutProbaSwapped(prediction_label) ==
    << IF prediction_label = 1 THEN PScale ELSE 0,
       IF prediction_label = 1 THEN 0 ELSE PScale,
       PScale >>

\* the branch of predict_url for a model without predict_proba:
\* <<prob_legitimate, prob_phishing, confidence>>, 1.0 being PScale
WithoutProba(prediction_label) ==
    << IF prediction_label = 1 THEN 0 ELSE PScale,
       IF prediction_label = 1 THEN PScale ELSE 0,
       PScale >>

\* the dict predict_url returns, given the label and
\* p = <<prob_legitimate, prob_phishing, confidence>>
MakeResult(u, prediction_label, p) ==
    [url           |-> u,
     prediction    |-> PredictionText(prediction_label),
     label         |-> prediction_label,
     confidence    |-> p[3],
     probabilities |-> [legitimate |-> p[1], phishing |-> p[2]]]

\* predict_url, lines 50-74
ResultDict(u, m, f) ==
    IF HasPredictProba(m)
    THEN MakeResult(u, Predict(m, f), WithProba(m, f, Predict(m, f)))
    ELSE MakeResult(u, Predict(m, f), WithoutProba(Predict(m, f)))

\* predict_url, lines 45-74, with the model in hand, the features given
Classify(u, mdl, fx, n) ==
    IF fx.raised THEN Failed("ValueError", n)
    ELSE IF ~HasPredict(mdl) THEN Failed("AttributeError", n)
    ELSE [exc |-> NoException, loads |-> n,
          result |-> <<ResultDict(u, mdl, fx.value)>>]

\* predict_url, lines 41-43, given what load_model would return
PredictWith(u, m, loaded) ==
    IF m # None THEN Classify(u, m, extract_features_from_url(u), 0)
    ELSE IF loaded.exc # NoException THEN Failed(loaded.exc, 1)
    ELSE Classify(u, loaded.value, extract_features_from_url(u), 1)

\* predict_url(url, model, model_path) on the file system fs: the exception
\* or the result, and the number of load_model calls made
predict_url(u, m, mp, fs) == PredictWith(u, m, load_model(mp, fs))

\* a predict_url that keeps the model it loaded for its next call
NextModelCached(arg, loaded) ==
    IF arg = None /\ loaded.exc = NoException THEN loaded.value ELSE arg

\* the model parameter at the start of the next call of predict_url: what
\* the caller passes; the model a call loaded is a local and is dropped
NextModel(arg, loaded) == arg

\* the model predict_batch passes to predict_url inside its loop
LoopModel(m) == m

\* results.insert(0, result)
InsertResult(rs, r) == <<r>> \o rs

\* results.append(result)
AppendResult(rs, r) == Append(rs, r)

----------------------------------------------------------------------------
(* One call of predict_url or predict_batch                                *)

\* the most URLs in one predict_batch call
MaxBatch == 2

\* the most successive calls of predict_url
MaxCalls == 2

\* the URLs handed to the predictor
PredictUrls ==
    { <<"h","t","t","p","s",":","/","/","w","w","w",".","g","o","o","g","l","e",".","c","o","m">>,
      <<"h","t","t","p",":","/","/","b","i","t",".","l","y","/","x">>,
      <<"h","t","t","p",":","/","/","1","9","2",".","1","6","8",".","1",".","1","/","l","o","g","i","n",".","p","h","p">>,
      <<"h","t","t","p",":","/","/","[","a","b","c">> }

\* what the paths hold when a predictor starts
ArtifactChoices ==
    { Absent, Garbage, Pickle(None), Pickle(OtherObject),
      Pickle(Model("Logistic Regression", "flags")),
      Pickle(Model("Random Forest", "always")),
      Pickle(Model(ForeignFamily, "flags")) }

\* the models a caller passes (None: let the predictor load one)
ModelArgs ==
    { None, Model("Decision Tree", "flags"), Model(ForeignFamily, "flags"),
      Model(ForeignFamily, "always") }

\* the variables of extract_features_from_url's own machine, at rest
FxIdle ==
    /\ url = <<>>
    /\ fx_pc = "idle"
    /\ features = <<>>
    /\ again = <<>>

PrInit ==
    /\ FxIdle
    /\ CcIdle
    /\ TrIdle
    /\ files \in [Paths -> ArtifactChoices]
    /\ fn \in {"predict_url", "predict_batch"}
    /\ urls \in UNION {[1..n -> PredictUrls] : n \in 0..MaxBatch}
    /\ (fn = "predict_url" => Len(urls) = 1)
    /\ model \in ModelArgs
    /\ model_arg = model
    /\ model_path \in {NoPath, CustomPath}
    /\ pc = "call"
    /\ results = <<>>
    /\ ret = <<>>
    /\ exc = NoException
    /\ loads = 0
    /\ ncalls = 0

\* predict_url(urls[1], model, model_path), the whole call
CallPredictUrl ==
    /\ pc = "call"
    /\ fn = "predict_url"
    /\ LET r == predict_url(urls[1], model, model_path, files)
       IN  /\ loads' = loads + r.loads
           /\ exc' = r.exc
           /\ ret' = r.result
           /\ pc' = IF r.exc = NoException THEN "returned" ELSE "raised"
    /\ ncalls' = ncalls + 1
    /\ UNCHANGED <<cc_vars, fx_vars, tr_vars, files, fn, urls, model_arg, model, model_path, results>>

\* the caller calls predict_url once more, with the arguments of the call
\* that ended
CallAgain ==
    /\ pc \in {"returned", "raised"}
    /\ fn = "predict_url"
    /\ ncalls < MaxCalls
    /\ model' = NextModel(model_arg, load_model(model_path, files))
    /\ pc' = "call"
    /\ ret' = <<>>
    /\ exc' = NoException
    /\ UNCHANGED <<cc_vars, fx_vars, tr_vars, files, fn, urls, model_arg, model_path, results,
                   loads, ncalls>>

\* predict_batch, lines 89-93: load the model if none was given
BatchEnter ==
    /\ pc = "call"
    /\ fn = "predict_batch"
    /\ IF model = None
       THEN LET loaded == load_model(model_path, files)
            IN  /\ loads' = loads + 1
                /\ exc' = loaded.exc
                /\ model' = loaded.value
                /\ pc' = IF loaded.exc = NoException THEN "loop" ELSE "raised"
       ELSE /\ pc' = "loop"
            /\ UNCHANGED <<loads, exc, model>>
    /\ UNCHANGED <<cc_vars, fx_vars, tr_vars, files, fn, urls, model_arg, model_path, results, ret,
                   ncalls>>

\* a for loop that ends the batch at the first URL whose prediction raises
\* and returns the results it has
BatchStepPartial ==
    /\ pc = "loop"
    /\ Len(results) < Len(urls)
    /\ LET r == predict_url(urls[Len(results) + 1], LoopModel(model), NoPath, files)
       IN  /\ loads' = loads + r.loads
           /\ exc' = exc
           /\ IF r.exc = NoException
              THEN /\ results' = AppendResult(results, r.result[1])
                   /\ pc' = "loop"
                   /\ ret' = ret
              ELSE /\ results' = results
                   /\ pc' = "returned"
                   /\ ret' = results
    /\ UNCHANGED <<cc_vars, fx_vars, tr_vars, files, fn, urls, model_arg, model, model_path,
                   ncalls>>

\* predict_batch, lines 94-96: one turn of the for loop
BatchStep ==
    /\ pc = "loop"
    /\ Len(results) < Len(urls)
    /\ LET r == predict_url(urls[Len(results) + 1], LoopModel(model), NoPath, files)
       IN  /\ loads' = loads + r.loads
           /\ exc' = r.exc
           /\ IF r.exc = NoException
              THEN /\ results' = AppendResult(results, r.result[1])
                   /\ pc' = "loop"
              ELSE /\ results' = results
                   /\ pc' = "raised"
    /\ UNCHANGED <<cc_vars, fx_vars, tr_vars, files, fn, urls, model_arg, model, model_path, ret,
                   ncalls>>

\* predict_batch, line 98: return results
BatchReturn ==
    /\ pc = "loop"
    /\ Len(results) = Len(urls)
    /\ ret' = results
    /\ pc' = "returned"
    /\ UNCHANGED <<cc_vars, fx_vars, tr_vars, files, fn, urls, model_arg, model, model_path, results, exc,
                   loads, ncalls>>

PrNext == CallPredictUrl \/ CallAgain \/ BatchEnter \/ BatchStep \/ BatchReturn

SpecPredict == PrInit /\ [][PrNext]_vars

----------------------------------------------------------------------------
(* src/src/train_model.py                                                  *)

\* an exception of type ty raised at the step named site
TrainError(ty, site) == [type |-> ty, site |-> site]

\* a step of main that raised e
TrainRaised(e) == [exc |-> e, value |-> <<>>]

\* a step of main that returned v
TrainReturned(v) == [exc |-> NoTrainException, value |-> v]

\* pandas' NaN, where a label is an integer
NaN == -1

PHISHING == <<"p", "h", "i", "s", "h", "i", "n", "g">>
MALICIOUS == <<"m", "a", "l", "i", "c", "i", "o", "u", "s">>
LEGITIMATE == <<"l", "e", "g", "i", "t", "i", "m", "a", "t", "e">>
BENIGN == <<"b", "e", "n", "i", "g", "n">>
SAFE == <<"s", "a", "f", "e">>

\* label_map, applied by Series.map: NaN for a value that is no key
label_map(v) ==
    IF v \in {PHISHING, MALICIOUS} THEN 1
    ELSE IF v \in {LEGITIMATE, BENIGN, SAFE} THEN 0
    ELSE NaN

\* df['label'].map(label_map), without .str.lower()
MapLabelsExact(label) == [i \in 1..Len(label) |-> label_map(label[i])]

\* df['label'].str.lower().map(label_map)
MapLabels(label) == [i \in 1..Len(label) |-> label_map(Lower(label[i]))]

\* how the f-string of an error message renders a value of the mapped column
LabelText(v) ==
    IF v = NaN THEN <<"n", "a", "n">>
    ELSE IF v = 1 THEN <<"1">> ELSE <<"0">>

\* unknown_labels = df[df['label'].isna()]['label'].unique(), df['label']
\* being the mapped column by then: the values the message names
unknown_labels(mapped) ==
    {LabelText(mapped[i]) : i \in {j \in 1..Len(mapped) : mapped[j] = NaN}}

\* ValueError(f"Unknown labels found: {unknown_labels}. ...")
UnknownLabels(named) ==
    [type |-> "ValueError", site |-> "normalize_labels", unknown_labels |-> named]

\* normalize_labels, lines 39-47, given the mapped column
CheckMapped(mapped) ==
    IF \E i \in 1..Len(mapped) : mapped[i] = NaN
    THEN TrainRaised(UnknownLabels(unknown_labels(mapped)))
    ELSE TrainReturned(mapped)

\* normalize_labels(df): the label column as integers 0 and 1, or the error.
\* An integer column is checked against {0, 1}; any other column is mapped
\* through .str, which raises AttributeError on a column that is not text
normalize_labels(df) ==
    IF df.dtype = "int64"
    THEN IF {df.label[i] : i \in 1..Len(df.label)} \subseteq {0, 1}
         THEN TrainReturned(df.label)
         ELSE TrainRaised(TrainError("ValueError", "normalize_labels"))
    ELSE IF df.dtype # "object"
    THEN TrainRaised(TrainError("AttributeError", "normalize_labels"))
    ELSE CheckMapped(MapLabels(df.label))

\* a load_and_prepare_data that extracts the features before it looks at
\* the outcome of normalize_labels
ExtractAllFirst(df, normalized) ==
    IF \E i \in 1..Len(df.url) : extract_features_from_url(df.url[i]).raised
    THEN TrainRaised(TrainError("ValueError", "extract_features_from_url"))
    ELSE normalized

\* load_and_prepare_data, lines 66-74, the labels normalized: the features
\* of every row are extracted, and y is returned
ExtractAll(df, normalized) ==
    IF normalized.exc # NoTrainException THEN normalized
    ELSE IF \E i \in 1..Len(df.url) : extract_features_from_url(df.url[i]).raised
    THEN TrainRaised(TrainError("ValueError", "extract_features_from_url"))
    ELSE normalized

\* load_and_prepare_data(csv_path): y, or the error
load_and_prepare_data(df) ==
    IF ~df.has_columns
    THEN TrainRaised(TrainError("ValueError", "load_and_prepare_data"))
    ELSE ExtractAll(df, normalize_labels(df))

\* the distinct values of a label list
Classes(labels) == {labels[i] : i \in 1..Len(labels)}

\* how many rows carry the label c
ClassCount(labels, c) == Cardinality({i \in 1..Len(labels) : labels[i] = c})

\* ceil(0.2 * n), the size of the test split
TestSize(n) == (n + 4) \div 5

\* train_test_split(X, y, test_size=0.2, random_state=42, stratify=y) raises
\* ValueError: an empty train split, a class of one row, or a split smaller
\* than the number of classes
SplitRaises(labels) ==
    \/ Len(labels) - TestSize(Len(labels)) = 0
    \/ \E c \in Classes(labels) : ClassCount(labels, c) < 2
    \/ Len(labels) - TestSize(Len(labels)) < Cardinality(Classes(labels))
    \/ TestSize(Len(labels)) < Cardinality(Classes(labels))

\* the keys of the dict models, in insertion order
ModelNames == <<"Logistic Regression", "Decision Tree", "Random Forest">>

\* a fit that accepts a single class
FitNeverRaises(name, labels) == FALSE

\* model.fit(X_train, y_train) raises ValueError: LogisticRegression needs
\* two classes (every class of y is in y_train: each has two rows or more)
FitRaises(name, labels) ==
    name = "Logistic Regression" /\ Cardinality(Classes(labels)) < 2

\* F1 scores are counted in units of 1/F1Max
F1Max == 2

\* if f1 > best_score
Improves(f1, score) == f1 > score

----------------------------------------------------------------------------
(* One run of train_model.main                                             *)

\* the most rows of a data set with integer labels
MaxRows == 6

\* the most rows of a data set with text labels
MaxTextRows == 3

\* the most rows of a data set with float labels
MaxFloatRows == 2

\* the raw labels of an integer column
IntLabels == {0, 1, 2}

\* the raw labels of a text column
TextLabels ==
    { PHISHING, <<"P", "h", "i", "s", "h", "i", "n", "g">>, <<"P", "H", "I", "S", "H", "I", "N", "G">>,
      MALICIOUS, LEGITIMATE, <<"B", "e", "n", "i", "g", "n">>, SAFE, <<"s", "p", "a", "m">> }

\* a URL extract_features_from_url accepts
GoodUrl == <<"h", "t", "t", "p", ":", "/", "/", "b", "i", "t", ".", "l", "y", "/", "x">>

\* a URL extract_features_from_url raises ValueError on
BadUrl == <<"h", "t", "t", "p", ":", "/", "/", "[", "a", "b", "c">>

\* the url columns for n rows: GoodUrl in every row but at most one
UrlColumns(n) ==
    {[i \in 1..n |-> IF i = bad THEN BadUrl ELSE GoodUrl] : bad \in 0..n}

\* the data set of a label column l and a url column cut to its length
Frame(dtype, l, u) ==
    [has_columns |-> TRUE, dtype |-> dtype, label |-> l,
     url |-> SubSeq(u, 1, Len(l))]

\* what pandas can read from data/urls.csv: a file without the two columns;
\* integer, float and text label columns (a file with no rows has dtype object)
Datasets ==
    {[has_columns |-> FALSE, dtype |-> "object", label |-> <<>>, url |-> <<>>]}
    \cup {Frame("int64", l, u) :
            l \in UNION {[1..n -> IntLabels] : n \in 1..MaxRows},
            u \in UrlColumns(MaxRows)}
    \cup {Frame("float64", l, u) :
            l \in UNION {[1..n -> {0, 1}] : n \in 1..MaxFloatRows},
            u \in UrlColumns(MaxFloatRows)}
    \cup {Frame("object", l, u) :
            l \in UNION {[1..n -> TextLabels] : n \in 0..MaxTextRows},
            u \in UrlColumns(MaxTextRows)}

\* a model an earlier training run saved
OldModel == Model("Decision Tree", "always")

TrInit ==
    /\ FxIdle
    /\ CcIdle
    /\ PrIdle
    /\ dataset \in Datasets
    /\ files \in {[p \in Paths |-> Absent],
                  [p \in Paths |-> IF p = DefaultPath THEN Pickle(OldModel) ELSE Absent]}
    /\ tr_pc = "main"
    /\ y = <<>>
    /\ tr_results = <<>>
    /\ best_model = None
    /\ best_score = 0
    /\ best_name = ""
    /\ tr_exc = NoTrainException
    /\ dumps = 0

\* main raises e
TrainFails(e) ==
    /\ tr_exc' = e
    /\ tr_pc' = "raised"

\* main, lines 142-150: load_and_prepare_data(data_path)
TrainPrepare ==
    /\ tr_pc = "main"
    /\ IF load_and_prepare_data(dataset).exc # NoTrainException
       THEN /\ TrainFails(load_and_prepare_data(dataset).exc)
            /\ y' = y
       ELSE /\ y' = load_and_prepare_data(dataset).value
            /\ tr_pc' = "prepared"
            /\ tr_exc' = tr_exc
    /\ UNCHANGED <<cc_vars, fx_vars, pr_vars, files, dataset, tr_results, best_model,
                   best_score, best_name, dumps>>

\* main, lines 153-158: train_test_split; then train_and_evaluate_models,
\* lines 79-92
TrainSplit ==
    /\ tr_pc = "prepared"
    /\ IF SplitRaises(y)
       THEN TrainFails(TrainError("ValueError", "train_test_split"))
       ELSE /\ tr_pc' = "fit"
            /\ tr_exc' = tr_exc
    /\ UNCHANGED <<cc_vars, fx_vars, pr_vars, files, dataset, y, tr_results, best_model,
                   best_score, best_name, dumps>>

\* train_and_evaluate_models, lines 94-125: one turn of the for loop.  The
\* classifier the fit produces and its F1 on the test split are inputs
TrainCandidate ==
    /\ tr_pc = "fit"
    /\ Len(tr_results) < Len(ModelNames)
    /\ IF FitRaises(ModelNames[Len(tr_results) + 1], y)
       THEN /\ TrainFails(TrainError("ValueError", "fit"))
            /\ UNCHANGED <<tr_results, best_model, best_score, best_name>>
       ELSE \E rule \in Rules, f1 \in 0..F1Max :
              /\ tr_results' = Append(tr_results,
                    [name  |-> ModelNames[Len(tr_results) + 1],
                     f1    |-> f1,
                     model |-> Model(ModelNames[Len(tr_results) + 1], rule)])
              /\ IF Improves(f1, best_score)
                 THEN /\ best_score' = f1
                      /\ best_model' = Model(ModelNames[Len(tr_results) + 1], rule)
                      /\ best_name' = ModelNames[Len(tr_results) + 1]
                 ELSE UNCHANGED <<best_model, best_score, best_name>>
              /\ UNCHANGED <<tr_pc, tr_exc>>
    /\ UNCHANGED <<cc_vars, fx_vars, pr_vars, files, dataset, y, dumps>>

\* train_and_evaluate_models, lines 127-136: the report on the best model,
\* best_model.predict(X_test) raising AttributeError when best_model is None
TrainReport ==
    /\ tr_pc = "fit"
    /\ Len(tr_results) = Len(ModelNames)
    /\ IF best_model = None
       THEN TrainFails(TrainError("AttributeError", "train_and_evaluate_models"))
       ELSE /\ tr_pc' = "save"
            /\ tr_exc' = tr_exc
    /\ UNCHANGED <<cc_vars, fx_vars, pr_vars, files, dataset, y, tr_results, best_model,
                   best_score, best_name, dumps>>

\* main, line 165: joblib.dump(best_model, model_path) opens model_path for
\* writing, which truncates the file in place
TrainSave ==
    /\ tr_pc = "save"
    /\ files' = [files EXCEPT ![DefaultPath] = Partial]
    /\ dumps' = dumps + 1
    /\ tr_pc' = "writing"
    /\ UNCHANGED <<cc_vars, fx_vars, pr_vars, dataset, y, tr_results, best_model,
                   best_score, best_name, tr_exc>>

\* main, lines 165-173: joblib.dump has written the pickle and closed the file
TrainSaved ==
    /\ tr_pc = "writing"
    /\ files' = [files EXCEPT ![DefaultPath] = Pickle(best_model)]
    /\ tr_pc' = "done"
    /\ UNCHANGED <<cc_vars, fx_vars, pr_vars, dataset, y, tr_results, best_model,
                   best_score, best_name, tr_exc, dumps>>

TrNext ==
    \/ TrainPrepare
    \/ TrainSplit
    \/ TrainCandidate
    \/ TrainReport
    \/ TrainSave
    \/ TrainSaved

SpecTrain == TrInit /\ [][TrNext]_vars

----------------------------------------------------------------------------
(* A training run and a predictor process side by side                     *)

\* the URLs of the batch the predictor scores
FixedBatch ==
    << <<"h","t","t","p","s",":","/","/","w","w","w",".","g","o","o","g","l","e",".","c","o","m">>,
       <<"h","t","t","p",":","/","/","b","i","t",".","l","y","/","x">>,
       <<"h","t","t","p",":","/","/","1","9","2",".","1","6","8",".","1",".","1","/","l","o","g","i","n",".","p","h","p">> >>

\* data/urls.csv for the run: both classes, one class, the columns missing
PipelineDatasets ==
    { Frame("int64", <<0, 1, 0, 1, 0, 1>>, [i \in 1..6 |-> GoodUrl]),
      Frame("int64", <<1, 1, 1, 1, 1, 1>>, [i \in 1..6 |-> GoodUrl]),
      [has_columns |-> FALSE, dtype |-> "object", label |-> <<>>, url |-> <<>>] }

\* python src/train_model.py is started while a process is about to call
\* predict_url or predict_batch with no model and the default path
PipelineInit ==
    /\ FxIdle
    /\ CcIdle
    /\ dataset \in PipelineDatasets
    /\ files \in {[p \in Paths |-> Absent],
                  [p \in Paths |-> IF p = DefaultPath THEN Pickle(OldModel) ELSE Absent]}
    /\ tr_pc = "main"
    /\ y = <<>>
    /\ tr_results = <<>>
    /\ best_model = None
    /\ best_score = 0
    /\ best_name = ""
    /\ tr_exc = NoTrainException
    /\ dumps = 0
    /\ fn \in {"predict_url", "predict_batch"}
    /\ urls \in {FixedBatch} \cup {<<FixedBatch[i]>> : i \in 1..Len(FixedBatch)}
    /\ (fn = "predict_url" <=> Len(urls) = 1)
    /\ model = None
    /\ model_arg = None
    /\ model_path = NoPath
    /\ pc = "call"
    /\ results = <<>>
    /\ ret = <<>>
    /\ exc = NoException
    /\ loads = 0
    /\ ncalls = 0

\* a step of the trainer or a step of the predictor
PipelineNext == TrNext \/ PrNext

SpecPipeline == PipelineInit /\ [][PipelineNext]_vars

----------------------------------------------------------------------------
(* Concurrent calls of predict_url and predict_batch with one loaded model *)

\* the threads that call the predictor
Threads == {1, 2}

\* the URLs the threads score
CcUrls ==
    { <<"h","t","t","p","s",":","/","/","w","w","w",".","g","o","o","g","l","e",".","c","o","m">>,
      <<"h","t","t","p",":","/","/","b","i","t",".","l","y","/","x">>,
      <<"h","t","t","p",":","/","/","[","a","b","c">> }

\* the models load_model can have returned to the caller
SharedModels ==
    { Model("Decision Tree", "flags"), Model("Random Forest", "always"),
      Model(ForeignFamily, "flags") }

\* a call about to start: the function, its urls, and its locals
NewCall(f, us) ==
    [fn |-> f, urls |-> us, pc |-> "call", features |-> <<>>,
     prediction_label |-> 0, results |-> <<>>, exc |-> NoException]

\* the batches a thread can pass: up to MaxBatch URLs, no URL twice
CcBatches ==
    UNION {{us \in [1..n -> CcUrls] :
               \A i, j \in 1..n : us[i] = us[j] => i = j} : n \in 0..MaxBatch}

\* the calls a thread can make
CcCalls ==
    {NewCall("predict_url", <<u>>) : u \in CcUrls}
    \cup {NewCall("predict_batch", us) : us \in CcBatches}

CcInit ==
    /\ FxIdle
    /\ PrIdle
    /\ TrIdle
    /\ files = [p \in Paths |-> Absent]
    /\ shared \in SharedModels
    /\ given = shared
    /\ calls \in [Threads -> CcCalls]

\* the url the call of thread t is working on
CurrentUrl(t) == calls[t].urls[Len(calls[t].results) + 1]

\* the model object after model.predict / model.predict_proba has run on it:
\* prediction reads the fitted attributes and writes none
ModelAfterRefit(m, f) == [m EXCEPT !.rule = "always"]

ModelAfterPredict(m, f) == m

\* the dict predict_url builds, lines 53-74, from the shared model
CcResult(u, m, f, prediction_label) ==
    IF HasPredictProba(m)
    THEN MakeResult(u, prediction_label, WithProba(m, f, prediction_label))
    ELSE MakeResult(u, prediction_label, WithoutProba(prediction_label))

\* where a call goes after appending a result
AfterResult(c) ==
    IF c.fn = "predict_url" \/ Len(c.results) + 1 = Len(c.urls)
    THEN "returned" ELSE "features"

\* the test `if model is None` of predict_url, line 42, and predict_batch,
\* line 90: a model was given, nothing is loaded
CcEnter(t) ==
    /\ calls[t].pc = "call"
    /\ shared # None
    /\ calls' = [calls EXCEPT ![t].pc =
                    IF calls[t].urls = <<>> THEN "returned" ELSE "features"]
    /\ UNCHANGED <<fx_vars, pr_vars, tr_vars, files, shared, given>>

\* predict_url, lines 46-47: extract_features_from_url(url)
CcFeatures(t) ==
    /\ calls[t].pc = "features"
    /\ IF extract_features_from_url(CurrentUrl(t)).raised
       THEN calls' = [calls EXCEPT ![t].pc = "raised", ![t].exc = "ValueError"]
       ELSE calls' = [calls EXCEPT
                        ![t].pc = "predict",
                        ![t].features = extract_features_from_url(CurrentUrl(t)).value]
    /\ UNCHANGED <<fx_vars, pr_vars, tr_vars, files, shared, given>>

\* predict_url, line 50: model.predict(features_array)[0]
CcPredict(t) ==
    /\ calls[t].pc = "predict"
    /\ calls' = [calls EXCEPT
                    ![t].pc = "proba",
                    ![t].prediction_label = Predict(shared, calls[t].features)]
    /\ shared' = ModelAfterPredict(shared, calls[t].features)
    /\ UNCHANGED <<fx_vars, pr_vars, tr_vars, files, given>>

\* predict_url, lines 53-74, and results.append(result) of predict_batch
CcProba(t) ==
    /\ calls[t].pc = "proba"
    /\ calls' = [calls EXCEPT
                    ![t].pc = AfterResult(calls[t]),
                    ![t].results = AppendResult(calls[t].results,
                        CcResult(CurrentUrl(t), shared, calls[t].features,
                                 calls[t].prediction_label))]
    /\ shared' = ModelAfterPredict(shared, calls[t].features)
    /\ UNCHANGED <<fx_vars, pr_vars, tr_vars, files, given>>

CcNext ==
    \E t \in Threads : CcEnter(t) \/ CcFeatures(t) \/ CcPredict(t) \/ CcProba(t)

SpecConcurrent == CcInit /\ [][CcNext]_vars

----------------------------------------------------------------------------
(* Properties                                                              *)

\* the object predict_url calls predict on: the model in hand, or the one the
\* call loads (predict_url inside predict_batch is given no model_path)
UsedModel ==
    IF model # None THEN model
    ELSE IF fn = "predict_url" THEN load_model(model_path, files).value
    ELSE load_model(NoPath, files).value

\* the features of the i-th URL of the call
FeaturesOf(i) == extract_features_from_url(urls[i]).value

\* C1: for every URL string, extract_features_from_url returns a list of
\* exactly 14 values whose positions 11 to 14 are each 0 or 1.
C1_EveryUrlYields14 ==
    fx_pc \in {"returned", "raised"} =>
        /\ fx_pc = "returned"
        /\ Len(features) = 14
        /\ \A i \in 11..14 : features[i] \in {0, 1}

\* C2: no call of extract_features_from_url raises, whatever the string.
C2_NeverRaises == fx_pc # "raised"

\* C3: every result predict_url returns carries the input URL unchanged, a
\* label of 0 or 1 that is the label the model's predict gave, and the text
\* "Phishing" exactly for label 1 and "Legitimate" exactly for label 0.
C3_ResultMatchesPredict ==
    pc = "returned" =>
        \A i \in 1..Len(ret) :
            /\ ret[i].url = urls[i]
            /\ ret[i].label \in {0, 1}
            /\ ret[i].label = Predict(UsedModel, FeaturesOf(i))
            /\ (ret[i].prediction = "Phishing" <=> ret[i].label = 1)
            /\ (ret[i].prediction = "Legitimate" <=> ret[i].label = 0)

\* a predict_url call returned label 1, "Phishing"
C3_Witness ==
    /\ fn = "predict_url"
    /\ pc = "returned"
    /\ ret[1].label = 1
    /\ ret[1].prediction = "Phishing"

\* C4: with a model that has predict_proba, the confidence returned is the
\* returned probability of the predicted class, lies in [0, 1], and the two
\* probabilities add up to 1 (PScale units).
C4_ConfidenceIsPredictedClass ==
    (pc = "returned" /\ HasPredictProba(UsedModel)) =>
        \A i \in 1..Len(ret) :
            /\ ret[i].confidence =
                  IF ret[i].label = 1 THEN ret[i].probabilities.phishing
                  ELSE ret[i].probabilities.legitimate
            /\ ret[i].confidence \in 0..PScale
            /\ ret[i].probabilities.legitimate + ret[i].probabilities.phishing
                  = PScale

\* a model with predict_proba returned label 0 with the smaller share on
\* phishing, neither probability being 0
C4_Witness ==
    /\ pc = "returned"
    /\ HasPredictProba(UsedModel)
    /\ Len(ret) >= 1
    /\ ret[1].label = 0
    /\ ret[1].probabilities.phishing > 0
    /\ ret[1].probabilities.phishing < ret[1].probabilities.legitimate

C6_BatchInOrder ==
    (fn = "predict_batch" /\ pc = "returned") =>
        /\ Len(ret) = Len(urls)
        /\ \A i \in 1..Len(urls) :
              /\ ret[i].url = urls[i]
              /\ ret[i] = predict_url(urls[i], model, NoPath, files).result[1]

\* a batch of two different URLs returned
C6_Witness ==
    /\ fn = "predict_batch"
    /\ pc = "returned"
    /\ Len(urls) = 2
    /\ urls[1] # urls[2]

\* C7: in one predict_batch call load_model runs exactly once when no model
\* was supplied and never when one was; no predict_url call of the loop loads.
C7_LoadedOncePerBatch ==
    fn = "predict_batch" =>
        /\ loads <= (IF model_arg = None THEN 1 ELSE 0)
        /\ (pc \in {"loop", "returned"} =>
               loads = (IF model_arg = None THEN 1 ELSE 0))

\* the greatest F1 among the candidates evaluated
MaxF1 ==
    CHOOSE m \in {tr_results[i].f1 : i \in 1..Len(tr_results)} :
        \A i \in 1..Len(tr_results) : tr_results[i].f1 <= m

\* the first candidate, in training order, whose F1 is the greatest
FirstBest ==
    CHOOSE i \in 1..Len(tr_results) :
        /\ tr_results[i].f1 = MaxF1
        /\ \A j \in 1..(i - 1) : tr_results[j].f1 < MaxF1

\* C8: whatever F1 scores the candidates obtain, once all are evaluated the
\* selected model is one of them and its F1 is the greatest.
C8_SelectsMaxF1 ==
    Len(tr_results) = Len(ModelNames) =>
        \E i \in 1..Len(tr_results) :
            /\ best_model = tr_results[i].model
            /\ best_name = tr_results[i].name
            /\ tr_results[i].f1 = MaxF1

\* C9: of the candidates that share the greatest F1, the first in training
\* order is the one selected.
C9_FirstOfTiedWins ==
    Len(tr_results) = Len(ModelNames) =>
        /\ best_name = tr_results[FirstBest].name
        /\ best_model = tr_results[FirstBest].model

\* the data set has the two columns and fewer than two distinct labels,
\* as read or as normalized
SingleClass ==
    /\ dataset.has_columns
    /\ \/ Cardinality(Classes(dataset.label)) < 2
       \/ /\ normalize_labels(dataset).exc = NoTrainException
          /\ Cardinality(Classes(normalize_labels(dataset).value)) < 2

\* C10: training on a data set with fewer than two distinct labels fails and
\* writes no artifact; when the labels and URLs are valid the failure is the
\* ValueError of the stratified split or of the first fit (the spec's
\* InsufficientDataError).
C10_SingleClassFails ==
    SingleClass =>
        /\ dumps = 0
        /\ tr_pc \notin {"save", "writing", "done"}
        /\ (tr_pc = "raised"
              /\ load_and_prepare_data(dataset).exc = NoTrainException) =>
                 /\ tr_exc.type = "ValueError"
                 /\ tr_exc.site \in {"train_test_split", "fit"}

\* a data set of one class and several rows passed the split and failed in
\* the fit of the first candidate, with an older artifact in place
C10_Witness ==
    /\ SingleClass
    /\ Len(y) >= 2
    /\ tr_pc = "raised"
    /\ tr_exc = TrainError("ValueError", "fit")
    /\ files[DefaultPath] = Pickle(OldModel)

\* the keys of label_map
LabelKeys == {PHISHING, MALICIOUS, LEGITIMATE, BENIGN, SAFE}

\* main is past normalize_labels, which returned
Normalized ==
    /\ tr_pc \notin {"idle", "main"}
    /\ tr_pc = "raised" =>
          tr_exc.site \notin {"load_and_prepare_data", "normalize_labels"}

\* main is past load_and_prepare_data, which returned y
Prepared ==
    /\ Normalized
    /\ tr_pc = "raised" => tr_exc.site # "extract_features_from_url"

\* C11: a text label column whose lower-cased values are all keys of the
\* label map is normalized without error, row by row: 1 for phishing and
\* malicious, 0 for legitimate, benign and safe, whatever the letter case,
\* and nothing but 0 and 1 comes out.
C11_TextLabelsMapped ==
    (dataset.has_columns /\ dataset.dtype = "object") =>
        /\ (tr_pc # "main"
               /\ \A i \in 1..Len(dataset.label) :
                     Lower(dataset.label[i]) \in LabelKeys)
              => Normalized
        /\ Prepared =>
              /\ Len(y) = Len(dataset.label)
              /\ \A i \in 1..Len(y) :
                    /\ y[i] \in {0, 1}
                    /\ y[i] = 1 <=>
                          Lower(dataset.label[i]) \in {PHISHING, MALICIOUS}
                    /\ y[i] = 0 <=>
                          Lower(dataset.label[i]) \in {LEGITIMATE, BENIGN, SAFE}

\* a text column with labels in upper and mixed case was normalized to both
\* classes
C11_Witness ==
    /\ dataset.dtype = "object"
    /\ Prepared
    /\ Len(y) = 3
    /\ \E i \in 1..3 : dataset.label[i] # Lower(dataset.label[i]) /\ y[i] = 1
    /\ \E i \in 1..3 : dataset.label[i] # Lower(dataset.label[i]) /\ y[i] = 0

\* the raw text labels that are no key of the label map
OffendingLabels ==
    {dataset.label[i] :
        i \in {j \in 1..Len(dataset.label) :
                  Lower(dataset.label[j]) \notin LabelKeys}}

\* C12: a text label outside the label map makes normalize_labels fail with
\* ValueError (the spec's UnknownLabelError), the error naming the offending
\* raw values; no label is produced for any row.
C12_UnknownLabelNamed ==
    (dataset.has_columns /\ dataset.dtype = "object" /\ tr_pc # "main"
        /\ OffendingLabels # {}) =>
        /\ tr_pc = "raised"
        /\ tr_exc.type = "ValueError"
        /\ tr_exc.site = "normalize_labels"
        /\ y = <<>>
        /\ tr_exc.unknown_labels = OffendingLabels

\* C13: a numeric label column (integer or float) whose values are all 0 or 1
\* is accepted and returned unchanged, and one with another value fails with
\* ValueError (the spec's ValidationError).
C13_NumericLabelsChecked ==
    (dataset.has_columns /\ dataset.dtype \in {"int64", "float64"}
        /\ tr_pc # "main") =>
        IF Classes(dataset.label) \subseteq {0, 1}
        THEN /\ Normalized
             /\ Prepared => y = dataset.label
        ELSE /\ tr_pc = "raised"
             /\ tr_exc = TrainError("ValueError", "normalize_labels")

\* what the first load_model of the call finds at its path
FirstArtifact == files[IF model_path = NoPath THEN DefaultPath ELSE model_path]

\* the call was given no model and is past its first load_model
PastFirstLoad == model_arg = None /\ pc \notin {"idle", "call"}

\* C14: a load whose target does not exist fails with FileNotFoundError (the
\* spec's ArtifactNotFoundError) at that first load, before anything is
\* deserialized or predicted: the call ends there with no result (a repeated
\* predict_url ends at its own load each time).
C14_MissingArtifact ==
    (PastFirstLoad /\ FirstArtifact = Absent) =>
        /\ pc = "raised"
        /\ exc = "FileNotFoundError"
        /\ loads = (IF fn = "predict_url" THEN ncalls ELSE 1)
        /\ model = None
        /\ results = <<>>
        /\ ret = <<>>

\* a batch of two URLs ended at its load, nothing at the path
C14_Witness ==
    /\ fn = "predict_batch"
    /\ Len(urls) = 2
    /\ model_arg = None
    /\ FirstArtifact = Absent
    /\ pc = "raised"
    /\ exc = "FileNotFoundError"

\* C15: a load of an existing artifact that does not deserialize, or that
\* deserializes to a value without predict, fails at the load (the spec's
\* ArtifactCorruptError); what a load returns can always predict, so no call
\* fails later for want of predict.
C15_LoadReturnsPredictor ==
    PastFirstLoad =>
        /\ exc # "AttributeError"
        /\ (fn = "predict_batch" /\ pc \in {"loop", "returned"})
              => HasPredict(model)
        /\ (FirstArtifact = Garbage
              \/ (FirstArtifact.kind = "pickle" /\ ~HasPredict(Unpickle(FirstArtifact))))
              => (pc = "raised" /\ loads = 1 /\ results = <<>>)

C18_NoPartialArtifactRead ==
    PastFirstLoad => exc # "UnpicklingError"

C20_SchemelessRecovery ==
    (fx_pc # "call" /\ SchemeEnd(url) = 0 /\ ~Urlparse(url).raised
        /\ Urlparse(url).netloc = <<>>) =>
        get_hostname(url) = get_hostname(HTTP_PREFIX \o url)

\* what predict_url gives for the i-th url of the call c, run alone with the
\* model as it was loaded
Alone(c, i) == predict_url(c.urls[i], given, NoPath, files)

\* the first url of c on which predict_url, run alone, raises (0: none)
FirstFailure(c) ==
    IF \A i \in 1..Len(c.urls) : Alone(c, i).exc = NoException THEN 0
    ELSE CHOOSE i \in 1..Len(c.urls) :
            /\ Alone(c, i).exc # NoException
            /\ \A j \in 1..(i - 1) : Alone(c, j).exc = NoException

\* C17: under every interleaving of the calls that share a loaded model, the
\* model stays as it was loaded, the artifacts stay as they were, and each
\* call ends as it ends when run alone: with the same results in the same
\* order, or with the same exception.
C17_ConcurrentCallsIsolated ==
    /\ shared = given
    /\ files = [p \in Paths |-> Absent]
    /\ \A t \in DOMAIN calls :
          /\ calls[t].pc = "returned" =>
                /\ FirstFailure(calls[t]) = 0
                /\ Len(calls[t].results) = Len(calls[t].urls)
                /\ \A i \in 1..Len(calls[t].urls) :
                      calls[t].results[i] = Alone(calls[t], i).result[1]
          /\ calls[t].pc = "raised" =>
                /\ FirstFailure(calls[t]) # 0
                /\ Len(calls[t].results) = FirstFailure(calls[t]) - 1
                /\ calls[t].exc = Alone(calls[t], FirstFailure(calls[t])).exc

\* one thread has returned a batch of two results while the other is in the
\* middle of predict_url for the second URL of its own batch
C17_Witness ==
    /\ DOMAIN calls = Threads
    /\ calls[1].pc = "returned"
    /\ Len(calls[1].results) = 2
    /\ calls[1].results[1].label # calls[1].results[2].label
    /\ calls[2].pc = "proba"
    /\ Len(calls[2].results) = 1

\* extract_features_from_url(url) has returned its list
FxDone == fx_pc \in {"returned", "repeated"}

\* the hostname get_hostname gives for url, once the call has returned
Host == get_hostname(url).value

\* C21: feature 14 is 1 exactly when the lower-cased hostname is one of the
\* six shorteners; bit.ly.evil.com yields 0 and bit.ly yields 1.
C21_ShortenerExact ==
    FxDone =>
        /\ features[14] \in {0, 1}
        /\ features[14] = 1 <=>
              Lower(Host) \in
                  { <<"b", "i", "t", ".", "l", "y">>, <<"g", "o", "o", ".", "g", "l">>,
                    <<"t", "i", "n", "y", "u", "r", "l", ".", "c", "o", "m">>,
                    <<"t", ".", "c", "o">>, <<"o", "w", ".", "l", "y">>,
                    <<"b", "i", "t", "l", "y", ".", "c", "o", "m">> }
        /\ url = <<"h","t","t","p",":","/","/","b","i","t",".","l","y",".","e","v","i","l",".","c","o","m","/","x">>
              => features[14] = 0
        /\ url = <<"h","t","t","p",":","/","/","b","i","t",".","l","y","/","x">>
              => features[14] = 1

\* http://bit.ly.evil.com/x was extracted
C21_Witness ==
    /\ FxDone
    /\ url = <<"h","t","t","p",":","/","/","b","i","t",".","l","y",".","e","v","i","l",".","c","o","m","/","x">>
    /\ features[14] = 0

\* the positions of the dots of the hostname
HostDots == {i \in 1..Len(Host) : Host[i] = "."}

\* the hostname is four groups of one to three digits, with a dot between
\* two groups: d1, d2, d3 are where its three dots are
IsDottedQuad ==
    /\ \A i \in 1..Len(Host) : Host[i] \in Digits \cup {"."}
    /\ \E d1, d2, d3 \in 1..Len(Host) :
          /\ HostDots = {d1, d2, d3}
          /\ d1 - 1 \in 1..3
          /\ d2 - d1 - 1 \in 1..3
          /\ d3 - d2 - 1 \in 1..3
          /\ Len(Host) - d3 \in 1..3

\* C23: feature 11 is 1 exactly when the hostname is four dot-separated groups
\* of one to three digits and nothing else, whatever the value of a group
\* (999.999.999.999 yields 1), and 0 for every other hostname, the empty one
\* included.
C23_DottedQuad ==
    FxDone =>
        /\ features[11] \in {0, 1}
        /\ features[11] = 1 <=> IsDottedQuad
        /\ Host = <<>> => features[11] = 0
        /\ Host = <<"9","9","9",".","9","9","9",".","9","9","9",".","9","9","9">>
              => features[11] = 1

\* a URL whose hostname is 999.999.999.999 was extracted
C23_Witness ==
    /\ FxDone
    /\ Host = <<"9","9","9",".","9","9","9",".","9","9","9",".","9","9","9">>
    /\ features[11] = 1

\* C24: feature 12 is 1 exactly when the scheme of the URL is https (the
\* URL starts with "https:", in any letter case, which urlparse reads as the
\* scheme https) and 0 otherwise; a URL with no scheme, whose hostname comes
\* from the http:// fallback, yields 0.
C24_HttpsScheme ==
    FxDone =>
        /\ features[12] \in {0, 1}
        /\ features[12] = 1 <=>
              StartsWith(Lower(url), <<"h", "t", "t", "p", "s", ":">>)
        /\ (~Contains(url, ":") /\ Host # <<>>) => features[12] = 0

\* a URL with no scheme got its hostname from the fallback
C24_Witness ==
    /\ FxDone
    /\ ~Contains(url, ":")
    /\ Host = <<"e", "x", "a", "m", "p", "l", "e", ".", "c", "o", "m">>
    /\ features[12] = 0

\* str.upper, character by character
UpperChar(c) ==
    IF c \in LowerLetters
    THEN CHOOSE C \in UpperLetters : LowerChar(C) = c
    ELSE c

Upper(s) == [i \in 1..Len(s) |-> UpperChar(s[i])]

\* C22: feature 13 is 1 exactly when the lower-cased hostname ends with one
\* of the eight suspicious TLDs, and the URL written in upper case or in
\* lower case yields the same feature 13.
C22_SuspiciousTldAnyCase ==
    FxDone =>
        /\ features[13] \in {0, 1}
        /\ features[13] = 1 <=>
              \E tld \in { <<".", "z", "i", "p">>, <<".", "t", "k">>,
                           <<".", "x", "y", "z">>, <<".", "t", "o", "p">>,
                           <<".", "g", "q">>, <<".", "m", "l">>,
                           <<".", "g", "a">>, <<".", "c", "f">> } :
                  EndsWith(Lower(Host), tld)
        /\ ~extract_features_from_url(Upper(url)).raised
        /\ extract_features_from_url(Upper(url)).value[13] = features[13]
        /\ ~extract_features_from_url(Lower(url)).raised
        /\ extract_features_from_url(Lower(url)).value[13] = features[13]

\* the authority of a URL that starts with http://, read off the string:
\* what is between the two slashes and the next of '/', '?', '#'
AuthorityEnd ==
    IF \E i \in 8..Len(url) : url[i] \in {"/", "?", "#"}
    THEN CHOOSE i \in 8..Len(url) :
            /\ url[i] \in {"/", "?", "#"}
            /\ \A j \in 8..(i - 1) : url[j] \notin {"/", "?", "#"}
    ELSE Len(url) + 1

Authority == SubSeq(url, 8, AuthorityEnd - 1)

\* C28: the hostname the features use is the whole authority, userinfo and
\* port included: feature 10 counts its dots, and an authority with a port or
\* a userinfo yields feature 11 = 0 and feature 14 = 0, and one that ends
\* with a port yields feature 13 = 0 (http://1.2.3.4:80/, http://bit.ly:80/x,
\* http://user@site.tk:80/).
C28_HostnameIsAuthority ==
    (FxDone /\ StartsWith(url, HTTP_PREFIX) /\ Authority # <<>>) =>
        /\ Host = Authority
        /\ features[10] = Cardinality({i \in 1..Len(Authority) : Authority[i] = "."})
        /\ (Contains(Authority, ":") \/ Contains(Authority, "@")) =>
              (features[11] = 0 /\ features[14] = 0)
        /\ Authority[Len(Authority)] \in Digits => features[13] = 0

\* http://user@site.tk:80/ was extracted: its bare host ends with .tk
C28_Witness ==
    /\ FxDone
    /\ url = <<"h","t","t","p",":","/","/","u","s","e","r","@","s","i","t","e",".","t","k",":","8","0","/">>
    /\ features[13] = 0

\* C29: at most one of features 11, 13 and 14 is 1: feature 11 = 1 comes
\* with three dots in the hostname and features 13 and 14 at 0, feature
\* 14 = 1 with one dot and features 11 and 13 at 0.
C29_FlagsExclusive ==
    FxDone =>
        /\ features[11] = 1 =>
              (features[10] = 3 /\ features[13] = 0 /\ features[14] = 0)
        /\ features[14] = 1 =>
              (features[10] = 1 /\ features[11] = 0 /\ features[13] = 0)
        /\ features[11] + features[13] + features[14] <= 1

\* a shortener in mixed case was extracted
C29_Witness ==
    /\ FxDone
    /\ features[14] = 1
    /\ Host # Lower(Host)

\* C30: 0 <= feature 10 <= feature 2 <= feature 1, and features 2 to 9
\* together are at most feature 1.
C30_CountsOrdered ==
    FxDone =>
        /\ \A i \in 1..10 : features[i] >= 0
        /\ features[10] <= features[2]
        /\ features[2] <= features[1]
        /\ features[2] + features[3] + features[4] + features[5] + features[6]
              + features[7] + features[8] + features[9] <= features[1]

\* a URL with dots in and outside its hostname and other counted characters
\* was extracted
C30_Witness ==
    /\ FxDone
    /\ 0 < features[10]
    /\ features[10] < features[2]
    /\ features[3] + features[4] + features[5] + features[6]
          + features[7] + features[8] + features[9] > 0

\* the rows of the data set whose label is neither 0 or 1 nor a known text
InvalidRows ==
    IF ~dataset.has_columns THEN {}
    ELSE IF dataset.dtype = "object"
    THEN {i \in 1..Len(dataset.label) : Lower(dataset.label[i]) \notin LabelKeys}
    ELSE {i \in 1..Len(dataset.label) : dataset.label[i] \notin {0, 1}}

\* C25: a data set with an invalid label in any row makes main raise the
\* ValueError of normalize_labels, whatever its URLs are: no labels are
\* returned, no candidate is fit, and the artifact is neither written nor
\* overwritten; main does nothing after the failure.
C25_LabelFailureAborts ==
    (InvalidRows # {} /\ tr_pc # "main") =>
        /\ tr_pc = "raised"
        /\ tr_exc.type = "ValueError"
        /\ tr_exc.site = "normalize_labels"
        /\ y = <<>>
        /\ tr_results = <<>>
        /\ best_model = None
        /\ dumps = 0
        /\ files[DefaultPath] \in {Absent, Pickle(OldModel)}
        /\ ~ENABLED TrNext

\* one row of several has an invalid label, another has a URL that cannot be
\* parsed, an earlier artifact exists, and main has failed
C25_Witness ==
    /\ Cardinality(InvalidRows) = 1
    /\ Len(dataset.label) >= 3
    /\ \E i \in 1..Len(dataset.url) : dataset.url[i] = BadUrl
    /\ files[DefaultPath] = Pickle(OldModel)
    /\ tr_pc = "raised"

\* C26: predict_url keeps no model between calls: when a call has ended,
\* load_model has been called once for each call made without a model and
\* never for calls given one; and a call without a model whose artifact is
\* missing ends with FileNotFoundError, whatever the URL is.
C26_LoadsPerCall ==
    (fn = "predict_url" /\ pc \in {"returned", "raised"}) =>
        /\ loads = (IF model_arg = None THEN ncalls ELSE 0)
        /\ (model_arg = None /\ FirstArtifact = Absent) =>
              (pc = "raised" /\ exc = "FileNotFoundError")

\* the second call without a model has returned
C26_Witness ==
    /\ fn = "predict_url"
    /\ pc = "returned"
    /\ model_arg = None
    /\ ncalls = 2
    /\ loads = 2

\* the URLs of the batch whose prediction raises: the call the loop makes
\* for them, predict_url(url, model=model), ends with an exception
RaisingUrls ==
    {i \in 1..Len(urls) :
        predict_url(urls[i], model, NoPath, files).exc # NoException}

\* C27: predict_batch is all-or-nothing: a batch with a URL whose prediction
\* raises ends by raising, and a batch that raised returned nothing, the
\* results of the URLs scored before the failing one included; a batch that
\* returned has a result for every URL.
C27_BatchAllOrNothing ==
    (fn = "predict_batch" /\ pc \in {"returned", "raised"}) =>
        /\ RaisingUrls # {} => pc = "raised"
        /\ pc = "raised" => (ret = <<>> /\ exc # NoException)
        /\ pc = "returned" => Len(ret) = Len(urls)

\* the first URL of a batch was scored, the second raised, and the batch
\* returned nothing
C27_Witness ==
    /\ fn = "predict_batch"
    /\ pc = "raised"
    /\ Len(results) = 1
    /\ RaisingUrls = {2}
    /\ ret = <<>>

====
